---- MODULE Spec2Model ----
(***************************************************************************)
(* Model of contentcuration/automation/utils/appnexus/base.py:             *)
(*   SessionWithMaxConnectionAge  a requests.Session recycled by idle age  *)
(*   BackendRequest               request descriptor with a retry counter  *)
(*   BackendResponse              open attribute bag                       *)
(*   Backend                      singleton service: URL building,         *)
(*                                dispatch with retry, connect,            *)
(*                                make_request, get_instance               *)
(* Three specifications share the variables:                               *)
(*   Spec           dispatch (connect, make_request, _make_request) on a   *)
(*                  constructed backend                                    *)
(*   SpecLifecycle  construction and get_instance of one concrete type     *)
(*   SpecSession    a free-standing SessionWithMaxConnectionAge            *)
(***************************************************************************)
EXTENDS Integers, Sequences, FiniteSets, TLC

VARIABLES
    now,        \* the value time.time() returns
    _instance,  \* Backend._instance of the concrete type
    nobjs,      \* number of Backend objects object.__new__ has created
    nsess,      \* number of SessionWithMaxConnectionAge objects Backend.__init__ has created
    call,       \* history: the latest construction / get_instance call and what it returned
    prev,       \* history: the construction / get_instance call before `call`
    conn,       \* a free-standing SessionWithMaxConnectionAge
    uses,       \* history: the handles and times of the last two requests on conn,
                \* and when the handle conn holds was created
    req,        \* the caller's BackendRequest
    local,      \* the BackendRequest connect() builds for itself, while connect() runs
    op,         \* the public operation in progress or just finished
    pc,         \* "idle", or "dispatch" inside the _make_request recursion
    outcome,    \* what the latest operation returned or raised
    raw,        \* history: what _make_request returned or raised to that operation
    attempts,   \* history: transport calls made by the current dispatch
    last,       \* history: what the latest transport call did
    onlyConn,   \* history: every transport call of the dispatch raised ConnectionError
    tried0,     \* history: request.tried when the dispatch began
    req0,       \* history: the descriptor as it was when the current dispatch started
    first,      \* history: what the first attempt of the current dispatch sent
    total,      \* history: transport attempts made so far with the descriptor req
    answer,     \* history: what the transport answered to the latest attempt
    priorConn,  \* history: every attempt before the latest raised ConnectionError
    sent,       \* history: method and URL handed to the latest transport call
    thr,        \* per execution context, where it is inside session.request()
    lock,       \* whether the callers serialize access, and who holds their lock
    classAttr,  \* per concrete type, the _instance attribute set on that class itself
    made,       \* history: per concrete type, the objects of exactly that type created
    built       \* one call of _construct_full_url: its inputs and, once made, its result

vars == <<now, _instance, nobjs, nsess, call, prev, conn, uses, req, local, op, pc,
          outcome, raw, attempts, last, onlyConn, tried0, sent,
          answer, priorConn, req0, first, total,
          thr, lock, classAttr, made, built>>

lifecycleVars == <<_instance, nobjs, nsess, call, prev>>
typeVars == <<classAttr, made>>
raceVars == <<thr, lock>>
sessionVars == <<conn, uses>>
dispatchVars == <<req, local, op, pc, outcome, raw, attempts, last, onlyConn, tried0, sent,
                  answer, priorConn, req0, first, total>>

----------------------------------------------------------------------------
(* Bounds of the model *)

MaxTime == 11
MaxSessions == 3
MaxRetries == 3
MaxTried == 2
MaxAge == 2
MaxSleep == 3
MaxClock == 7
MaxLen == 2

(* Program constants *)

DefaultAge == 10
DefaultMaxRetries == 1

----------------------------------------------------------------------------
(* Strings are sequences of characters; None and "" are both the empty    *)
(* sequence (both are falsy in the tests of _construct_full_url).         *)

RECURSIVE rstrip(_, _)
rstrip(s, c) ==
    IF s # <<>> /\ s[Len(s)] = c THEN rstrip(SubSeq(s, 1, Len(s) - 1), c) ELSE s

RECURSIVE lstrip(_, _)
lstrip(s, c) ==
    IF s # <<>> /\ s[1] = c THEN lstrip(SubSeq(s, 2, Len(s)), c) ELSE s

RECURSIVE join(_, _)
join(sep, parts) ==
    IF parts = <<>> THEN <<>>
    ELSE IF Len(parts) = 1 THEN parts[1]
    ELSE parts[1] \o sep \o join(sep, Tail(parts))

base_url == <<"h", ":", "/", "/", "x", "/">>
connect_endpoint == <<"/", "c">>

Prefixes == {<<>>, <<"/", "v", "/">>, <<"w">>}
Paths == {<<"/", "t">>}

\* _construct_full_url on a backend whose class sets base_url to base
FullUrl(base, url_prefix, path) ==
    LET a1 == IF base # <<>> THEN <<rstrip(base, "/")>> ELSE <<>>
        a2 == IF url_prefix # <<>>
              THEN Append(a1, lstrip(rstrip(url_prefix, "/"), "/")) ELSE a1
        a3 == IF path # <<>> THEN Append(a2, lstrip(path, "/")) ELSE a2
    IN  join(<<"/">>, a3)

_construct_full_url(url_prefix, path) == FullUrl(base_url, url_prefix, path)

\* "https://api.example.com/", "/v1/", "/things"
ExampleBase ==
    <<"h", "t", "t", "p", "s", ":", "/", "/", "a", "p", "i", ".", "e", "x", "a", "m",
      "p", "l", "e", ".", "c", "o", "m", "/">>
ExamplePrefix == <<"/", "v", "1", "/">>
ExamplePath == <<"/", "t", "h", "i", "n", "g", "s">>

\* every string of at most MaxLen characters over "/" and one other character
ShortStrings == UNION {[1..n -> {"/", "a"}] : n \in 0..MaxLen}

NoUrl == [base |-> <<>>, url_prefix |-> <<>>, path |-> <<>>, done |-> FALSE, out |-> <<>>]

\* backend._construct_full_url(path) is called
BuildUrl ==
    /\ ~built.done
    /\ built' = [built EXCEPT !.done = TRUE,
                              !.out = FullUrl(built.base, built.url_prefix, built.path)]
    /\ UNCHANGED <<now, lifecycleVars, sessionVars, dispatchVars, typeVars, raceVars>>

----------------------------------------------------------------------------
(* SessionWithMaxConnectionAge *)

NoSession == [sid |-> -1]

\* __init__(age): a fresh transport state (adapters) under the same object
SessionInit(sid, age, t, handle, closed) ==
    [sid |-> sid, age |-> age, last_used |-> t, handle |-> handle, closed |-> closed]

ExpiredStrict(s, t) == t - s.last_used >= s.age

Expired(s, t) == t - s.last_used > s.age

\* request(): recycle when idle for longer than age, then stamp last_used
SessionRequest(s, t) ==
    LET r == IF Expired(s, t)
             THEN SessionInit(s.sid, s.age, t, s.handle + 1, s.closed \cup {s.handle})
             ELSE s
    IN  [r EXCEPT !.last_used = t]

\* time.time() is read again later
Tick(d) ==
    /\ now + d <= MaxTime
    /\ now' = now + d
    /\ UNCHANGED <<lifecycleVars, sessionVars, dispatchVars, typeVars, raceVars, built>>

----------------------------------------------------------------------------
(* A free-standing session: SessionWithMaxConnectionAge(age), then request() *)
(* calls with time passing in between.                                       *)

NoUse == [handle |-> -1, at |-> -1, held |-> -1, heldSince |-> -1]

\* no request yet on a session whose handle was created at time t
NoUses(t) == [n |-> 0, prev |-> NoUse, cur |-> NoUse, born |-> t]

Ages == 0..MaxAge

Sleep(d) ==
    /\ now + d <= MaxClock
    /\ now' = now + d
    /\ UNCHANGED <<lifecycleVars, sessionVars, dispatchVars, typeVars, raceVars, built>>

ConnRequest ==
    /\ conn.sid # NoSession.sid
    /\ conn' = SessionRequest(conn, now)
    /\ uses' = [n |-> IF uses.n < 2 THEN uses.n + 1 ELSE 2,
                prev |-> uses.cur,
                cur |-> [handle |-> conn'.handle, at |-> now,
                         held |-> conn.handle, heldSince |-> uses.born],
                born |-> IF conn'.handle # conn.handle THEN now ELSE uses.born]
    /\ UNCHANGED <<now, lifecycleVars, dispatchVars, typeVars, raceVars, built>>

----------------------------------------------------------------------------
(* Two execution contexts inside request() of the same session, statement   *)
(* by statement.                                                            *)

Threads == {1, 2}

MaxRaceClock == 2
MaxRaceAge == 1

\* time passes while the execution contexts run
Pause ==
    /\ now + 1 <= MaxRaceClock
    /\ now' = now + 1
    /\ UNCHANGED <<lifecycleVars, sessionVars, dispatchVars, typeVars, raceVars, built>>

IdleThread == [pc |-> "idle", current_time |-> -1, using |-> -1, recycles |-> FALSE]

NoLock == [serialized |-> FALSE, holder |-> 0]

\* callers that serialize take one lock around each request() call
MayEnter(t) == lock.serialized => lock.holder = 0

LeftStillSending(r) == r

\* request() has returned: the transfer is over
Left(r) == IdleThread

\* current_time = time.time()
Enter(t) ==
    /\ thr[t].pc = "idle" /\ MayEnter(t)
    /\ thr' = [thr EXCEPT ![t] = [IdleThread EXCEPT !.pc = "check", !.current_time = now]]
    /\ lock' = IF lock.serialized THEN [lock EXCEPT !.holder = t] ELSE lock
    /\ UNCHANGED <<now, lifecycleVars, sessionVars, dispatchVars, typeVars, built>>

\* if current_time - self.last_used > self.age
Check(t) ==
    /\ thr[t].pc = "check"
    /\ thr' = [thr EXCEPT ![t] = IF Expired(conn, thr[t].current_time)
                                 THEN [@ EXCEPT !.pc = "close", !.recycles = TRUE]
                                 ELSE [@ EXCEPT !.pc = "stamp"]]
    /\ UNCHANGED <<now, lifecycleVars, sessionVars, dispatchVars, typeVars, lock, built>>

\* self.close()
Close(t) ==
    /\ thr[t].pc = "close"
    /\ conn' = [conn EXCEPT !.closed = @ \cup {conn.handle}]
    /\ thr' = [thr EXCEPT ![t].pc = "init"]
    /\ UNCHANGED <<now, lifecycleVars, uses, dispatchVars, typeVars, lock, built>>

\* self.__init__(self.age)
Reinit(t) ==
    /\ thr[t].pc = "init"
    /\ conn' = SessionInit(conn.sid, conn.age, now, conn.handle + 1, conn.closed)
    /\ thr' = [thr EXCEPT ![t].pc = "stamp"]
    /\ UNCHANGED <<now, lifecycleVars, uses, dispatchVars, typeVars, lock, built>>

\* self.last_used = current_time
Stamp(t) ==
    /\ thr[t].pc = "stamp"
    /\ conn' = [conn EXCEPT !.last_used = thr[t].current_time]
    /\ thr' = [thr EXCEPT ![t].pc = "send"]
    /\ UNCHANGED <<now, lifecycleVars, uses, dispatchVars, typeVars, lock, built>>

\* super().request(...) starts the transfer on the session's current handle
Send(t) ==
    /\ thr[t].pc = "send"
    /\ thr' = [thr EXCEPT ![t].pc = "sending", ![t].using = conn.handle]
    /\ UNCHANGED <<now, lifecycleVars, sessionVars, dispatchVars, typeVars, lock, built>>

\* return super().request(...): the transfer ends and request() returns
Leave(t) ==
    /\ thr[t].pc = "sending"
    /\ thr' = [thr EXCEPT ![t] = Left(thr[t])]
    /\ lock' = IF lock.serialized THEN [lock EXCEPT !.holder = 0] ELSE lock
    /\ UNCHANGED <<now, lifecycleVars, sessionVars, dispatchVars, typeVars, built>>

----------------------------------------------------------------------------
(* Backend: the singleton of one concrete type *)

NoInstance == [id |-> 0]
NoCall == [kind |-> "none"]

\* isinstance(class_._instance, class_)
IsInstanceOfClass(inst) == inst.id # 0

\* Backend.__new__
New(url_prefix) ==
    IF ~IsInstanceOfClass(_instance)
    THEN [id |-> nobjs + 1, url_prefix |-> url_prefix, session |-> NoSession]
    ELSE _instance

\* Backend.__init__, which Python runs on whatever __new__ returned
BackendInit(self, url_prefix) ==
    [self EXCEPT !.session = SessionInit(nsess + 1, DefaultAge, now, 0, {}),
                 !.url_prefix = url_prefix]

\* class_(url_prefix): __new__, then __init__ on its result
Instantiate(url_prefix, kind) ==
    /\ nsess < MaxSessions
    /\ LET obj == New(url_prefix)
       IN  /\ _instance' = BackendInit(obj, url_prefix)
           /\ nobjs' = IF obj.id = _instance.id THEN nobjs ELSE nobjs + 1
           /\ call' = [kind |-> kind, arg |-> url_prefix, ret |-> obj.id,
                       created |-> obj.id # _instance.id,
                       prefix |-> _instance'.url_prefix,
                       sid |-> _instance'.session.sid]
    /\ nsess' = nsess + 1
    /\ prev' = call

Construct(url_prefix) ==
    /\ pc = "idle"
    /\ Instantiate(url_prefix, "construct")
    /\ UNCHANGED <<now, sessionVars, dispatchVars, typeVars, raceVars, built>>

\* the concrete type's _create_instance: cls(url_prefix)
_create_instance(url_prefix) == Instantiate(url_prefix, "get_instance")

HasInstanceNever == FALSE

\* the truth value of cls._instance
HasInstance == _instance.id # 0

\* Backend.get_instance
GetInstance(url_prefix) ==
    /\ pc = "idle"
    /\ IF HasInstance
       THEN /\ call' = [kind |-> "get_instance", arg |-> url_prefix, created |-> FALSE,
                        ret |-> _instance.id, prefix |-> _instance.url_prefix,
                        sid |-> _instance.session.sid]
            /\ prev' = call
            /\ UNCHANGED <<_instance, nobjs, nsess>>
       ELSE _create_instance(url_prefix)
    /\ UNCHANGED <<now, sessionVars, dispatchVars, typeVars, raceVars, built>>

----------------------------------------------------------------------------
(* Several concrete types: Parent and Sibling derive from Backend, Child    *)
(* derives from Parent. A class attribute that a class has not set itself  *)
(* is read from its base class.                                            *)

Types == {"Parent", "Child", "Sibling"}

Superclass(c) == IF c = "Child" THEN "Parent" ELSE "Backend"

RECURSIVE IsSubclass(_, _)
IsSubclass(c, d) == c = d \/ (c # "Backend" /\ IsSubclass(Superclass(c), d))

\* the class whose own _instance attribute the lookup class_._instance reads
RECURSIVE Owner(_)
Owner(c) ==
    IF c = "Backend" \/ classAttr[c].id # 0 THEN c ELSE Owner(Superclass(c))

\* class_._instance
ClassInstance(c) == IF Owner(c) = "Backend" THEN NoInstance ELSE classAttr[Owner(c)]

\* isinstance(class_._instance, class_)
IsInstanceOf(inst, c) == inst.id # 0 /\ IsSubclass(inst.type, c)

\* class_(url_prefix): Backend.__new__, then Backend.__init__ on what it returned
InstantiateType(c, url_prefix, kind) ==
    /\ nsess < MaxSessions
    /\ LET fresh == ~IsInstanceOf(ClassInstance(c), c)
           obj == IF fresh
                  THEN [id |-> nobjs + 1, type |-> c, url_prefix |-> url_prefix,
                        session |-> NoSession]
                  ELSE ClassInstance(c)
           at == IF fresh THEN c ELSE Owner(c)
           self == BackendInit(obj, url_prefix)
       IN  /\ classAttr' = [classAttr EXCEPT ![at] = self]
           /\ nobjs' = IF fresh THEN nobjs + 1 ELSE nobjs
           /\ made' = IF fresh THEN [made EXCEPT ![c] = @ + 1] ELSE made
           /\ call' = [kind |-> kind, cls |-> c, arg |-> url_prefix, ret |-> self.id,
                       type |-> self.type, created |-> fresh,
                       prefix |-> self.url_prefix, sid |-> self.session.sid]
    /\ nsess' = nsess + 1
    /\ prev' = call

ConstructType(c, url_prefix) ==
    /\ InstantiateType(c, url_prefix, "construct")
    /\ UNCHANGED <<now, _instance, sessionVars, dispatchVars, raceVars, built>>

\* Backend.get_instance on concrete type c, whose _create_instance is c(url_prefix)
GetInstanceType(c, url_prefix) ==
    /\ IF ClassInstance(c).id # 0
       THEN /\ call' = [kind |-> "get_instance", cls |-> c, arg |-> url_prefix,
                        ret |-> ClassInstance(c).id, type |-> ClassInstance(c).type,
                        created |-> FALSE, prefix |-> ClassInstance(c).url_prefix,
                        sid |-> ClassInstance(c).session.sid]
            /\ prev' = call
            /\ UNCHANGED <<classAttr, made, nobjs, nsess>>
       ELSE InstantiateType(c, url_prefix, "get_instance")
    /\ UNCHANGED <<now, _instance, sessionVars, dispatchVars, raceVars, built>>

----------------------------------------------------------------------------
(* requests.exceptions: the classes the except clauses of _make_request    *)
(* name, with the base classes the requests library gives them.            *)
(* OtherException stands for an exception that is no RequestException.     *)

RequestsExceptions ==
    {"RequestException", "ConnectionError", "SSLError", "Timeout", "ConnectTimeout",
     "ReadTimeout", "TooManyRedirects", "HTTPError", "URLRequired", "MissingSchema",
     "InvalidSchema", "InvalidURL", "InvalidHeader", "InvalidJSONError",
     "ContentDecodingError", "ChunkedEncodingError"}

Exceptions == RequestsExceptions \cup {"OtherException"}

Bases(e) ==
    CASE e = "RequestException" -> {}
      [] e = "OtherException" -> {}
      [] e = "SSLError" -> {"ConnectionError"}
      [] e = "ConnectTimeout" -> {"ConnectionError", "Timeout"}
      [] e = "ReadTimeout" -> {"Timeout"}
      [] OTHER -> {"RequestException"}

\* isinstance(e, c) for exception classes
RECURSIVE IsA(_, _)
IsA(e, c) == e = c \/ \E b \in Bases(e) : IsA(b, c)

\* the except clauses of _make_request, in source order
ExceptClauses ==
    << [classes |-> {"ConnectionError", "RequestException"}, does |-> "retry"],
       [classes |-> {"SSLError"}, does |-> "errors.ConnectionError"],
       [classes |-> {"Timeout", "ConnectTimeout", "ReadTimeout"},
        does |-> "errors.TimeoutError"],
       [classes |-> {"TooManyRedirects", "HTTPError"}, does |-> "errors.HttpError"],
       [classes |-> {"URLRequired", "MissingSchema", "InvalidSchema", "InvalidURL",
                     "InvalidHeader", "InvalidJSONError"},
        does |-> "errors.InvalidRequest"],
       [classes |-> {"ContentDecodingError", "ChunkedEncodingError"},
        does |-> "errors.InvalidResponse"] >>

Matches(e, i) == \E c \in ExceptClauses[i].classes : IsA(e, c)

\* Python runs the first clause that matches; 0 when none does
Clause(e) ==
    IF \E i \in DOMAIN ExceptClauses : Matches(e, i)
    THEN CHOOSE i \in DOMAIN ExceptClauses :
             Matches(e, i) /\ \A j \in 1..(i - 1) : ~Matches(e, j)
    ELSE 0

----------------------------------------------------------------------------
(* BackendRequest, the transport's answers, BackendResponse *)

None == "None"

Methods == {"POST"}

\* params, data, json and headers all left at their default
NoPayload == [params |-> None, data |-> None, json |-> None, headers |-> None]

Payloads == {NoPayload,
             [params |-> "q=1", data |-> None, json |-> "{b: 2}", headers |-> "h: 3"]}

BackendRequest(method, path, kw, max_retries) ==
    [method |-> method, path |-> path, params |-> kw.params, data |-> kw.data,
     json |-> kw.json, headers |-> kw.headers, max_retries |-> max_retries, tried |-> 0]

NoRequest == [method |-> None, path |-> <<>>, params |-> None, data |-> None,
              json |-> None, headers |-> None, max_retries |-> 0, tried |-> 0]

Statuses == {200, 201}

\* what response.json() makes of the body
Bodies ==
    {[json |-> "invalid"], [json |-> "array"], [json |-> "number"],
     [json |-> "object", value |-> [a |-> 1]],
     [json |-> "object", value |-> [a |-> 1, status_code |-> 7]]}

Responses == [status_code : Statuses, body : Bodies]

TransportOutcomes ==
    [kind : {"response"}, response : Responses] \cup [kind : {"raise"}, exc : Exceptions]

Return(v) == [kind |-> "return", response |-> v]
Raise(e) == [kind |-> "raise", error |-> e]
Again == [kind |-> "retry"]
Pending == [kind |-> "none"]

ExhaustedExact(request) == request.tried = request.max_retries

ExhaustedLate(request) == request.tried > request.max_retries

\* request.tried >= request.max_retries
Exhausted(request) == request.tried >= request.max_retries

HandleChecksStatus(request, o) ==
    IF o.kind = "response"
    THEN IF o.response.status_code = 200 THEN Return(o.response)
         ELSE Raise("errors.HttpError")
    ELSE Raise("errors.ConnectionError")

\* the try/except of _make_request after request.tried += 1, for one transport answer
Handle(request, o) ==
    IF o.kind = "response" THEN Return(o.response)
    ELSE LET i == Clause(o.exc)
         IN  IF i = 0 THEN Raise(o.exc)
             ELSE IF ExceptClauses[i].does = "retry"
                  THEN IF Exhausted(request) THEN Raise("errors.ConnectionError")
                       ELSE Again
                  ELSE Raise(ExceptClauses[i].does)

UpdateKeep(info, d) ==
    [k \in DOMAIN info \cup DOMAIN d |-> IF k \in DOMAIN info THEN info[k] ELSE d[k]]

\* dict.update
Update(info, d) ==
    [k \in DOMAIN info \cup DOMAIN d |-> IF k \in DOMAIN d THEN d[k] ELSE info[k]]

\* BackendResponse(**kwargs): one attribute per key
BackendResponse(kwargs) == [k \in DOMAIN kwargs |-> kwargs[k]]

\* the body of make_request after _make_request has returned or raised
MakeRequestResult(res) ==
    IF res.kind = "raise" THEN res
    ELSE LET body == res.response.body
         IN  IF body.json = "invalid" THEN Raise("errors.InvalidResponse")
             ELSE IF body.json # "object" THEN Raise("AttributeError")
             ELSE [kind |-> "return",
                   envelope |-> BackendResponse(
                       Update(body.value, [status_code |-> res.response.status_code]))]

ConnectResultAny2xx(res) ==
    [kind |-> "return",
     bool |-> res.kind = "return" /\ res.response.status_code \in {200, 201}]

\* the body of connect after _make_request has returned or raised
ConnectResult(res) ==
    [kind |-> "return",
     bool |-> IF res.kind = "raise" THEN FALSE
              ELSE IF res.response.status_code # 200 THEN FALSE ELSE TRUE]

Finish(opn, res) ==
    CASE opn = "connect" -> ConnectResult(res)
      [] opn = "make_request" -> MakeRequestResult(res)
      [] OTHER -> res

BumpClearsParams(request) == [request EXCEPT !.tried = @ + 1, !.params = None]

BumpTwice(request) == [request EXCEPT !.tried = @ + 2]

\* request.tried += 1
Bump(request) == [request EXCEPT !.tried = @ + 1]

NoSent == [method |-> None, url |-> <<>>, params |-> None, data |-> None,
           headers |-> None, json |-> None, session |-> -1, handle |-> -1]

\* one pass through _make_request on the singleton, the transport answering o
Attempt(opn, request, n, only, o) ==
    LET url == _construct_full_url(_instance.url_prefix, request.path)
        r1 == Bump(request)
        s1 == SessionRequest(_instance.session, now)
        res == Handle(r1, o)
    IN  /\ _instance' = [_instance EXCEPT !.session = s1]
        /\ IF opn = "connect"
           THEN local' = (IF res.kind = "retry" THEN r1 ELSE NoRequest) /\ UNCHANGED req
           ELSE req' = r1 /\ UNCHANGED local
        /\ sent' = [method |-> request.method, url |-> url, params |-> request.params,
                    data |-> request.data, headers |-> request.headers,
                    json |-> request.json, session |-> s1.sid, handle |-> s1.handle]
        /\ total' = IF opn = "connect" THEN total ELSE total + 1
        /\ first' = IF n = 0 THEN sent' ELSE first
        /\ req0' = IF n = 0 THEN request ELSE req0
        /\ attempts' = n + 1
        /\ last' = IF o.kind = "raise" THEN o.exc ELSE "response"
        /\ answer' = o
        /\ priorConn' = only
        /\ onlyConn' = (only /\ o.kind = "raise" /\ o.exc = "ConnectionError")
        /\ op' = opn
        /\ IF res.kind = "retry"
           THEN pc' = "dispatch" /\ outcome' = Pending /\ raw' = Pending
           ELSE pc' = "idle" /\ outcome' = Finish(opn, res) /\ raw' = res
        /\ UNCHANGED <<now, nobjs, nsess, call, prev, sessionVars, typeVars, raceVars, built>>

\* the caller builds a BackendRequest; the history starts over with it
NewRequest(method, path, kw, max_retries) ==
    /\ pc = "idle"
    /\ req' = BackendRequest(method, path, kw, max_retries)
    /\ req0' = req'
    /\ first' = NoSent
    /\ total' = 0
    /\ op' = "none"
    /\ outcome' = Pending
    /\ raw' = Pending
    /\ attempts' = 0
    /\ last' = "none"
    /\ onlyConn' = TRUE
    /\ tried0' = 0
    /\ sent' = NoSent
    /\ answer' = Pending
    /\ priorConn' = TRUE
    /\ UNCHANGED <<now, lifecycleVars, sessionVars, local, pc, typeVars, raceVars, built>>

\* backend._make_request(req)
DispatchCall(o) ==
    /\ pc = "idle" /\ HasInstance /\ req.tried < MaxTried
    /\ tried0' = req.tried
    /\ Attempt("_make_request", req, 0, TRUE, o)

\* backend.make_request(req)
MakeRequestCall(o) ==
    /\ pc = "idle" /\ HasInstance /\ req.tried < MaxTried
    /\ tried0' = req.tried
    /\ Attempt("make_request", req, 0, TRUE, o)

\* backend.connect()
ConnectCall(o) ==
    /\ pc = "idle" /\ HasInstance
    /\ tried0' = 0
    /\ Attempt("connect", BackendRequest("GET", connect_endpoint, NoPayload,
                                         DefaultMaxRetries),
               0, TRUE, o)

\* return self._make_request(request) inside the first except clause
Retry(o) ==
    /\ pc = "dispatch"
    /\ UNCHANGED tried0
    /\ Attempt(op, IF op = "connect" THEN local ELSE req, attempts, onlyConn, o)

----------------------------------------------------------------------------
(* Specifications *)

BackendTicks == {DefaultAge, DefaultAge + 1}

InitDispatchVars ==
    /\ local = NoRequest
    /\ op = "none"
    /\ pc = "idle"
    /\ outcome = Pending
    /\ raw = Pending
    /\ attempts = 0
    /\ last = "none"
    /\ onlyConn = TRUE
    /\ tried0 = 0
    /\ sent = NoSent
    /\ answer = Pending
    /\ req0 = req
    /\ first = NoSent
    /\ total = 0
    /\ priorConn = TRUE

InitRaceVars ==
    /\ thr = [t \in Threads |-> IdleThread]
    /\ lock = NoLock

InitSessionVars ==
    /\ built = NoUrl
    /\ InitRaceVars
    /\ classAttr = [c \in Types |-> NoInstance]
    /\ made = [c \in Types |-> 0]
    /\ conn = NoSession
    /\ uses = NoUses(0)

\* one backend obtained through get_instance, one BackendRequest built
Init ==
    /\ now = 0
    /\ \E p \in {<<"/", "v", "/">>} :
           /\ _instance = [id |-> 1, url_prefix |-> p,
                           session |-> SessionInit(1, DefaultAge, 0, 0, {})]
           /\ call = [kind |-> "get_instance", arg |-> p, ret |-> 1, created |-> TRUE,
                      prefix |-> p, sid |-> 1]
    /\ nobjs = 1
    /\ nsess = 1
    /\ prev = NoCall
    /\ \E m \in Methods, path \in Paths, n \in 1..MaxRetries :
           req = BackendRequest(m, path, NoPayload, n)
    /\ InitDispatchVars
    /\ InitSessionVars

Next ==
    \/ \E m \in Methods, path \in Paths, kw \in Payloads, n \in 1..MaxRetries :
           NewRequest(m, path, kw, n)
    \/ \E o \in TransportOutcomes : DispatchCall(o)
    \/ \E o \in TransportOutcomes : MakeRequestCall(o)
    \/ \E o \in TransportOutcomes : ConnectCall(o)
    \/ \E o \in TransportOutcomes : Retry(o)
    \/ \E d \in BackendTicks : Tick(d)

Spec == Init /\ [][Next]_vars

\* no backend exists yet
InitLifecycle ==
    /\ now = 0
    /\ _instance = NoInstance
    /\ nobjs = 0
    /\ nsess = 0
    /\ call = NoCall
    /\ prev = NoCall
    /\ req = NoRequest
    /\ InitDispatchVars
    /\ InitSessionVars

NextLifecycle ==
    \/ \E p \in Prefixes : Construct(p)
    \/ \E p \in Prefixes : GetInstance(p)
    \/ \E d \in BackendTicks : Tick(d)

SpecLifecycle == InitLifecycle /\ [][NextLifecycle]_vars

NextTypes ==
    \/ \E c \in Types, p \in Prefixes : ConstructType(c, p)
    \/ \E c \in Types, p \in Prefixes : GetInstanceType(c, p)

\* no backend of any type exists yet
SpecTypes == InitLifecycle /\ [][NextTypes]_vars

\* SessionWithMaxConnectionAge(age) has just been constructed
InitSession ==
    /\ now = 0
    /\ _instance = NoInstance
    /\ nobjs = 0
    /\ nsess = 0
    /\ call = NoCall
    /\ prev = NoCall
    /\ req = NoRequest
    /\ InitDispatchVars
    /\ built = NoUrl
    /\ classAttr = [c \in Types |-> NoInstance]
    /\ made = [c \in Types |-> 0]
    /\ InitRaceVars
    /\ \E age \in Ages : conn = SessionInit(0, age, 0, 0, {})
    /\ uses = NoUses(0)

NextSession ==
    \/ ConnRequest
    \/ \E d \in 1..MaxSleep : Sleep(d)

SpecSession == InitSession /\ [][NextSession]_vars

\* one session used by two execution contexts, serialized by their callers or not
InitRace ==
    /\ now = 0
    /\ _instance = NoInstance
    /\ nobjs = 0
    /\ nsess = 0
    /\ call = NoCall
    /\ prev = NoCall
    /\ req = NoRequest
    /\ InitDispatchVars
    /\ built = NoUrl
    /\ classAttr = [c \in Types |-> NoInstance]
    /\ made = [c \in Types |-> 0]
    /\ thr = [t \in Threads |-> IdleThread]
    /\ \E b \in BOOLEAN : lock = [serialized |-> b, holder |-> 0]
    /\ \E age \in 0..MaxRaceAge : conn = SessionInit(0, age, 0, 0, {})
    /\ uses = NoUses(0)

NextRace ==
    \/ \E t \in Threads : Enter(t)
    \/ \E t \in Threads : Check(t)
    \/ \E t \in Threads : Close(t)
    \/ \E t \in Threads : Reinit(t)
    \/ \E t \in Threads : Stamp(t)
    \/ \E t \in Threads : Send(t)
    \/ \E t \in Threads : Leave(t)
    \/ Pause

SpecRace == InitRace /\ [][NextRace]_vars

\* a backend whose base_url, url_prefix and request path are any of the strings
InitUrl ==
    /\ now = 0
    /\ _instance = NoInstance
    /\ nobjs = 0
    /\ nsess = 0
    /\ call = NoCall
    /\ prev = NoCall
    /\ req = NoRequest
    /\ InitDispatchVars
    /\ conn = NoSession
    /\ uses = NoUses(0)
    /\ classAttr = [c \in Types |-> NoInstance]
    /\ made = [c \in Types |-> 0]
    /\ InitRaceVars
    /\ \E b \in ShortStrings \cup {ExampleBase},
          p \in ShortStrings \cup {ExamplePrefix},
          q \in ShortStrings \cup {ExamplePath} :
           built = [base |-> b, url_prefix |-> p, path |-> q, done |-> FALSE, out |-> <<>>]

NextUrl == BuildUrl

SpecUrl == InitUrl /\ [][NextUrl]_vars

----------------------------------------------------------------------------
(* Properties *)

UserOps == {"_make_request", "make_request"}

Timeouts == {"Timeout", "ConnectTimeout", "ReadTimeout"}

\* C1: when a dispatch starts on a fresh descriptor (tried = 0) and every
\* transport attempt so far has raised a ConnectionError, the dispatch has
\* made at most max_retries attempts, tried equals the number of attempts, the
\* dispatch has ended exactly when that number is max_retries, and it ended
\* with errors.ConnectionError.
C1_RetryBound ==
    (op \in UserOps /\ tried0 = 0 /\ attempts > 0 /\ onlyConn) =>
        /\ attempts <= req.max_retries
        /\ req.tried = attempts
        /\ (pc = "idle") <=> (attempts = req.max_retries)
        /\ pc = "idle" => outcome = Raise("errors.ConnectionError")

C1_Witness ==
    /\ op = "_make_request" /\ tried0 = 0 /\ onlyConn /\ pc = "idle"
    /\ req.max_retries = 3 /\ attempts = 3 /\ req.tried = 3
    /\ outcome = Raise("errors.ConnectionError")

\* C2: a timeout raised by the first transport attempt of a dispatch on a
\* fresh descriptor ends the dispatch at once with errors.TimeoutError, after
\* that one attempt.
C2_TimeoutNotRetried ==
    (op \in UserOps /\ tried0 = 0 /\ attempts = 1 /\ last \in Timeouts) =>
        /\ pc = "idle"
        /\ req.tried = 1
        /\ outcome = Raise("errors.TimeoutError")

\* C3: an SSLError raised by any transport attempt ends the dispatch at once
\* with errors.ConnectionError, whatever retry budget is left.
C3_SSLNotRetried ==
    (op \in UserOps /\ attempts > 0 /\ last = "SSLError") =>
        /\ pc = "idle"
        /\ outcome = Raise("errors.ConnectionError")

\* the taxonomy kind the spec gives each remaining failure class
KindOf(e) ==
    CASE e \in {"TooManyRedirects", "HTTPError"} -> "errors.HttpError"
      [] e \in {"URLRequired", "MissingSchema", "InvalidSchema", "InvalidURL",
                "InvalidHeader", "InvalidJSONError"} -> "errors.InvalidRequest"
      [] e \in {"ContentDecodingError", "ChunkedEncodingError"} ->
             "errors.InvalidResponse"

\* C4: a redirect/HTTP error, a malformed-request error or a decoding error
\* raised by the first transport attempt ends the dispatch after that one
\* attempt with HttpError, InvalidRequest or InvalidResponse respectively.
C4_OtherKindsNotRetried ==
    \A e \in {"TooManyRedirects", "HTTPError", "URLRequired", "MissingSchema",
              "InvalidSchema", "InvalidURL", "InvalidHeader", "InvalidJSONError",
              "ContentDecodingError", "ChunkedEncodingError"} :
        (op \in UserOps /\ tried0 = 0 /\ attempts = 1 /\ last = e) =>
            /\ pc = "idle"
            /\ req.tried = 1
            /\ outcome = Raise(KindOf(e))

\* C5: of two consecutive get_instance calls, the second returns the instance
\* the first returned, whatever argument it passes, and the instance's
\* url_prefix is still what it was after the first call: the first call's
\* argument when that call created the instance.
C5_GetInstanceSingleton ==
    (call.kind = "get_instance" /\ prev.kind = "get_instance") =>
        /\ call.ret = prev.ret
        /\ _instance.id = call.ret
        /\ _instance.url_prefix = prev.prefix
        /\ prev.created => _instance.url_prefix = prev.arg

C5_Witness ==
    /\ call.kind = "get_instance" /\ prev.kind = "get_instance"
    /\ prev.created /\ call.arg # prev.arg
    /\ call.ret = prev.ret /\ _instance.url_prefix = prev.arg

\* C6: a construction call made when the instance already exists returns that
\* instance with its url_prefix and its session object unchanged.
C6_LaterConstructionUnchanged ==
    (call.kind = "construct" /\ prev.kind # "none") =>
        /\ call.ret = prev.ret
        /\ _instance.url_prefix = prev.prefix
        /\ _instance.session.sid = prev.sid

\* C7: connect() always returns a boolean, after a GET to connect_endpoint;
\* it is TRUE exactly when the dispatch returned a response whose status code
\* is 200, and FALSE whenever the dispatch raised.
C7_ConnectReportsReachability ==
    (op = "connect" /\ pc = "idle") =>
        /\ outcome.kind = "return"
        /\ outcome.bool \in BOOLEAN
        /\ sent.method = "GET"
        /\ raw.kind = "raise" => outcome.bool = FALSE
        /\ outcome.bool <=> (raw.kind = "return" /\ raw.response.status_code = 200)

C7_Witness ==
    /\ op = "connect" /\ pc = "idle" /\ last = "ConnectionError"
    /\ raw = Raise("errors.ConnectionError") /\ outcome.bool = FALSE

\* C8: make_request on a response whose body is not a key/value mapping
\* (unparseable, or parsed to an array or a number) raises
\* errors.InvalidResponse.
C8_NonMappingBodyIsInvalidResponse ==
    (op = "make_request" /\ pc = "idle" /\ raw.kind = "return"
        /\ raw.response.body.json # "object") =>
        outcome = Raise("errors.InvalidResponse")

\* C9: make_request on a response with status s whose body parses to a
\* mapping M returns an envelope whose fields are the keys of M and
\* status_code, with status_code = s and every other key at its value in M.
C9_EnvelopeMergesStatus ==
    (op = "make_request" /\ pc = "idle" /\ raw.kind = "return"
        /\ raw.response.body.json = "object") =>
        LET M == raw.response.body.value
            s == raw.response.status_code
        IN  /\ outcome.kind = "return"
            /\ DOMAIN outcome.envelope = DOMAIN M \cup {"status_code"}
            /\ outcome.envelope.status_code = s
            /\ \A k \in DOMAIN M \ {"status_code"} : outcome.envelope[k] = M[k]

C9_Witness ==
    /\ op = "make_request" /\ pc = "idle" /\ raw.kind = "return"
    /\ raw.response.status_code = 201
    /\ raw.response.body = [json |-> "object", value |-> [a |-> 1]]
    /\ outcome.envelope = [a |-> 1, status_code |-> 201]

C11_MaxConnectionAge ==
    (uses.n >= 1 /\ uses.cur.at - uses.cur.heldSince > conn.age) =>
        /\ uses.cur.handle # uses.cur.held
        /\ uses.cur.held \in conn.closed

NonEmpty(x) == x # <<>>

\* the '/'-join of the stripped parts that are not empty
JoinOfNonEmptyParts(base, url_prefix, path) ==
    join(<<"/">>, SelectSeq(<<rstrip(base, "/"), lstrip(rstrip(url_prefix, "/"), "/"),
                              lstrip(path, "/")>>, NonEmpty))

\* C12: _construct_full_url returns the '/'-join, in the order base_url,
\* url_prefix, path, of the stripped parts, a part that is empty giving
\* neither a segment nor a joining slash.
C12_JoinsOnlyNonEmptyParts ==
    built.done =>
        built.out = JoinOfNonEmptyParts(built.base, built.url_prefix, built.path)

\* C13: each concrete type has at most one instance of exactly that type,
\* and get_instance on a type returns an instance of exactly that type, which
\* is not the instance another type holds.
C13_SingletonPerType ==
    /\ \A c \in Types : made[c] <= 1
    /\ call.kind = "get_instance" =>
           /\ call.type = call.cls
           /\ \A c \in Types \ {call.cls} : classAttr[c].id # call.ret

\* C14 as stated: while a descriptor with max_retries >= 1 is dispatched, tried
\* grows by exactly one per transport attempt and is never greater than
\* max_retries. (tried keeps, until the outcome, the value it had during the
\* last transport attempt.)
C14_CounterNeverAboveBudget ==
    (op \in UserOps /\ attempts > 0 /\ req.max_retries >= 1) =>
        /\ req.tried = tried0 + attempts
        /\ req.tried <= req.max_retries

\* C14, amended: tried grows by exactly one per transport attempt, so it never
\* decreases; when the dispatch started with tried < max_retries, tried is
\* never greater than max_retries.
C14_AttemptCounter ==
    (op \in UserOps /\ attempts > 0 /\ req.max_retries >= 1) =>
        /\ req.tried = tried0 + attempts
        /\ tried0 < req.max_retries => req.tried <= req.max_retries

C14_Witness ==
    /\ op = "make_request" /\ pc = "idle" /\ req.max_retries = 3
    /\ tried0 = 1 /\ attempts = 2 /\ req.tried = 3

\* C15: when a dispatch on a fresh descriptor gets a response from the
\* transport after k attempts that each raised ConnectionError, it ends there:
\* it returns that response unchanged whatever its status code, tried is k + 1
\* and at most max_retries, and no failure is raised.
C15_RecoveryWithinBudget ==
    (op \in UserOps /\ tried0 = 0 /\ attempts > 0 /\ priorConn
        /\ answer.kind = "response") =>
        /\ pc = "idle"
        /\ raw = Return(answer.response)
        /\ op = "_make_request" => outcome = raw
        /\ req.tried = attempts
        /\ attempts <= req.max_retries

C15_Witness ==
    /\ op = "_make_request" /\ tried0 = 0 /\ priorConn /\ pc = "idle"
    /\ req.max_retries = 3 /\ attempts = 3 /\ req.tried = 3
    /\ answer.kind = "response" /\ answer.response.status_code = 201
    /\ outcome = Return(answer.response)

\* the closed set of failure kinds of the spec
Taxonomy ==
    {"errors.ConnectionError", "errors.TimeoutError", "errors.HttpError",
     "errors.InvalidRequest", "errors.InvalidResponse"}

\* C16: when the transport returns or raises a requests exception at every
\* attempt, a make_request or connect call that has ended made at most
\* max_retries transport attempts and ended with a success or with a failure
\* of the closed taxonomy.
C16_ClosedOutcome ==
    (op \in {"make_request", "connect"} /\ pc = "idle" /\ attempts > 0
        /\ last # "OtherException") =>
        /\ attempts <= (IF op = "connect" THEN DefaultMaxRetries ELSE req.max_retries)
        /\ outcome.kind = "return" \/ outcome.error \in Taxonomy

\* both execution contexts have decided to recycle the connection
BothRecycle == \A t \in Threads : thr[t].recycles

\* one execution context is in the middle of its transfer on a handle that the
\* other has closed
ClosedMidRequest ==
    \E t \in Threads, u \in Threads :
        /\ t # u
        /\ thr[t].pc = "sending" /\ thr[t].using \in conn.closed
        /\ thr[u].recycles

\* C17: when the callers serialize their request() calls on the session,
\* the two execution contexts never both decide to recycle, and none has the
\* handle of its transfer closed under it. (Without serialization both states
\* are reachable: C17_Witness.)
C17_SerializedNoRace ==
    lock.serialized => ~BothRecycle /\ ~ClosedMidRequest

C17_Witness ==
    ~lock.serialized /\ BothRecycle /\ ClosedMidRequest

\* what an attempt put on the wire
Wire(s) ==
    [method |-> s.method, url |-> s.url, params |-> s.params, data |-> s.data,
     json |-> s.json, headers |-> s.headers]

\* C18: during and after a dispatch the descriptor differs from what it was
\* at the start in tried only, every attempt puts on the wire the method, URL,
\* params, body and headers of the first one, and tried changes only by one
\* more attempt of a dispatch (or stands at 0 in a newly built descriptor).
C18_DispatchFrame ==
    /\ []((op \in UserOps /\ attempts > 0) =>
            /\ [req EXCEPT !.tried = req0.tried] = req0
            /\ Wire(sent) = Wire(first))
    /\ [][req'.tried # req.tried =>
            \/ /\ op' \in UserOps /\ attempts' > 0
               /\ sent'.method = req.method /\ sent'.params = req.params
               /\ req' = [req EXCEPT !.tried = @ + 1]
            \/ /\ op' = "none" /\ attempts' = 0 /\ req'.tried = 0]_vars

C18_Witness ==
    /\ op = "make_request" /\ pc = "idle" /\ attempts = 3
    /\ req0.tried = 0 /\ req.tried = 3 /\ req.params # None
    /\ [req EXCEPT !.tried = 0] = req0
    /\ Wire(sent) = Wire(first) /\ sent.params = req.params

\* C19: tried equals the number of transport attempts ever made with the
\* descriptor, over all its dispatches, so a dispatch adds its attempts to the
\* count it found; a dispatch that finds tried >= max_retries makes exactly one
\* attempt, and when that attempt raises ConnectionError the dispatch ends
\* with errors.ConnectionError instead of retrying.
C19_CounterNeverReset ==
    /\ req.tried = total
    /\ (op \in UserOps /\ attempts > 0) =>
           /\ total = tried0 + attempts
           /\ tried0 >= req.max_retries =>
                  /\ attempts = 1 /\ pc = "idle"
                  /\ last = "ConnectionError" => raw = Raise("errors.ConnectionError")

C19_Witness ==
    /\ op = "make_request" /\ pc = "idle" /\ req.max_retries = 1
    /\ tried0 = 1 /\ attempts = 1 /\ total = 2 /\ req.tried = 2
    /\ last = "ConnectionError" /\ outcome = Raise("errors.ConnectionError")

====
